---- MODULE Spec2Model ----
(***************************************************************************)
(* Postback reconciliation of backend/server.py: the four provider         *)
(* postback handlers (Inbrain success, Inbrain failure, CPX Research,      *)
(* Admantium) running as concurrent tasks against the users and            *)
(* transactions collections.  Every `await db...` of a handler is one      *)
(* atomic step of the store; between two awaits other handlers may run.    *)
(* Any store call may raise (connectivity); the handler's `except          *)
(* Exception` then answers with the provider's error literal.              *)
(***************************************************************************)
EXTENDS Integers, Sequences, FiniteSets, Bags, TLC

VARIABLES
    users,          \* db.users: user_id -> counters
    transactions,   \* db.transactions in insertion order (no unique index)
    cpxSecureHash,  \* CPX_CONFIG["secure_hash"], read from the environment
    pc,             \* task -> position in its handler
    req,            \* task -> the request it is handling
    existing,       \* task -> result of its transactions.find_one
    resp,           \* task -> the response it returned last
    delivered,      \* number of postbacks received so far
    faults,         \* number of store calls that raised so far
    ledger,         \* history: bag of users.update_one effects applied
    accepted,       \* history: events answered with the accepted literal
    midFailed,      \* history: events whose handler raised between its two writes
    wrote,          \* task -> number of store writes of its current handling
    mismatch,       \* task -> endpoint it last got a differing signature on, or ""
    withdrawals,    \* db.withdrawals in insertion order
    pending         \* the postback a provider holds for redelivery, or NoReq

vars == <<users, transactions, cpxSecureHash, pc, req, existing, resp,
          delivered, faults, ledger, accepted, midFailed, wrote, mismatch,
          withdrawals, pending>>

store == <<users, transactions>>

-----------------------------------------------------------------------------
(* Bounds of the model *)

MaxTasks == 2
MaxDeliveries == 3
MaxFaults == 1

Tasks == 1..MaxTasks

-----------------------------------------------------------------------------
(* Configuration and input domains *)

INBRAIN_CONFIG == [callback_secret |-> "inbrain-secret"]

ADMANTIUM_CONFIG == [secret |-> "admantium-secret"]

\* CPX_SECURE_HASH may be set in .env; the default is the empty string.
CpxSecureHashValues == {"", "cpx-secret"}

RegisteredUsers == {"u1"}
UserIds == {"u1", "u2"}
TxnIds == {"t1"}

\* Reward of an Inbrain callback (JSON integer).
InbrainRewards == {0, 1}
\* amount_local of a CPX postback, a float, counted in halves: 3 is 1.5, 4 is 2.0.
CpxAmountsHalves == {3, 4}
\* reward of an Admantium postback (integer query parameter).
AdmantiumRewards == {1, 2}

-----------------------------------------------------------------------------
(* Signatures.  A hex digest is modelled by the text that was hashed (MD5 is *)
(* taken to be collision free) and the letter case of its hex digits.       *)

Md5Hex(parts) == [text |-> parts, case |-> "lower"]

Upper(s) == [s EXCEPT !.case = "upper"]

Lower(s) == [s EXCEPT !.case = "lower"]

EmptyStr == [text |-> <<>>, case |-> "lower"]

\* Python truthiness of a str: the empty string is false.
TruthySig(s) == s.text # <<>>

TruthyStr(s) == s # ""

InbrainExpectedSig(r) ==
    Md5Hex(<<r.user, r.tid, INBRAIN_CONFIG.callback_secret>>)

\* A signature check that lets a request without signature through.
InbrainSigOKUnlessEmpty(r) ==
    ~TruthySig(r.sig) \/ Lower(r.sig) = Lower(InbrainExpectedSig(r))

InbrainSigOK(r) == Lower(r.sig) = Lower(InbrainExpectedSig(r))

CpxExpectedHash(r, secure_hash) == Md5Hex(<<r.tid, "-", secure_hash>>)

\* TRUE when the handler goes on: the hash is only compared when both the
\* configured secret and the supplied hash are non-empty.
CpxHashOK(r, secure_hash) ==
    IF TruthyStr(secure_hash) /\ TruthySig(r.sig)
    THEN Lower(r.sig) = Lower(CpxExpectedHash(r, secure_hash))
    ELSE TRUE

AdmantiumExpectedSig(r) ==
    Md5Hex(<<r.user, r.tid, r.amount, ADMANTIUM_CONFIG.secret>>)

AdmantiumSigOK(r) == Lower(r.sig) = Lower(AdmantiumExpectedSig(r))

\* TRUE when the handler recomputes the digest and compares the signature to it.
SigCompared(r, secure_hash) ==
    r.ep = "cpx" => (TruthyStr(secure_hash) /\ TruthySig(r.sig))

\* The digest the server recomputes for request r.
ExpectedSig(r, secure_hash) ==
    CASE r.ep \in {"inbrain_success", "inbrain_failure"} -> InbrainExpectedSig(r)
      [] r.ep = "cpx" -> CpxExpectedHash(r, secure_hash)
      [] r.ep = "admantium" -> AdmantiumExpectedSig(r)

\* The digest is recomputed and the supplied signature is not it, whatever the
\* letter case.
SigDiffers(r, secure_hash) ==
    /\ SigCompared(r, secure_hash)
    /\ Lower(r.sig) # Lower(ExpectedSig(r, secure_hash))

\* The parameters a handler keeps after the signature check; `signed` records
\* that the signature was compared with the recomputed digest.
Event(r, secure_hash) ==
    [ep |-> r.ep, user |-> r.user, tid |-> r.tid, amount |-> r.amount,
     status |-> r.status, signed |-> SigCompared(r, secure_hash)]

SigOK(r, secure_hash) ==
    CASE r.ep \in {"inbrain_success", "inbrain_failure"} -> InbrainSigOK(r)
      [] r.ep = "cpx" -> CpxHashOK(r, secure_hash)
      [] r.ep = "admantium" -> AdmantiumSigOK(r)

\* The secret CPX signs with; the server knows it only when configured.
CpxProviderSecret == "cpx-secret"

\* What a sender may put in the signature field for the hashed text `text`:
\* its digest made with one of `secrets`, in either letter case, or nothing.
Signatures(texts, secrets) ==
    { [text |-> Append(x, k), case |-> c] :
        x \in texts, k \in secrets, c \in {"lower", "upper"} } \cup {EmptyStr}

InbrainRequests ==
    UNION { { [ep |-> e, user |-> u, tid |-> x, amount |-> a, status |-> "",
               sig |-> s] :
                s \in Signatures({<<u, x>>},
                                 {INBRAIN_CONFIG.callback_secret, "guess"}) } :
            e \in {"inbrain_success", "inbrain_failure"}, u \in UserIds,
            x \in TxnIds, a \in InbrainRewards }

\* status: 1 = completed, 2 = canceled/reversed
CpxRequests ==
    UNION { { [ep |-> "cpx", user |-> u, tid |-> x, amount |-> a, status |-> st,
               sig |-> s] :
                s \in Signatures({<<x, "-">>}, {CpxProviderSecret, "guess"}) } :
            u \in UserIds, x \in TxnIds, a \in CpxAmountsHalves,
            st \in {"1", "2"} }

AdmantiumRequests ==
    UNION { { [ep |-> "admantium", user |-> u, tid |-> x, amount |-> a,
               status |-> st, sig |-> s] :
                s \in Signatures({<<u, x, a2>> : a2 \in AdmantiumRewards},
                                 {ADMANTIUM_CONFIG.secret, "guess"}) } :
            u \in UserIds, x \in TxnIds, a \in AdmantiumRewards,
            st \in {"credited", "rejected"} }

\* The signature field holds the digest of the request's own fields (for
\* Admantium also one made for another reward), made with the provider's secret
\* or a guessed one, in either letter case, or it is empty.
Requests == InbrainRequests \cup CpxRequests \cup AdmantiumRequests

NoReq == [ep |-> "none", user |-> "", tid |-> "", amount |-> 0, status |-> "",
          signed |-> FALSE]

-----------------------------------------------------------------------------
(* Responses *)

Resp(body, code) == [body |-> body, code |-> code]

NoResp == Resp("", 0)

\* The literal each provider takes as "accepted".
AcceptedResp(ep) ==
    CASE ep \in {"inbrain_success", "inbrain_failure"} -> Resp("OK", 200)
      [] ep = "cpx" -> Resp("1", 200)
      [] ep = "admantium" -> Resp("OK", 200)

SigMismatchResp(ep) ==
    CASE ep \in {"inbrain_success", "inbrain_failure"} -> Resp("SIGNATURE_MISMATCH", 400)
      [] ep = "cpx" -> Resp("0", 200)
      [] ep = "admantium" -> Resp("ERROR: Signature doesn't match", 200)

UserNotFoundResp(ep) ==
    CASE ep = "inbrain_success" -> Resp("USER_NOT_FOUND", 404)
      [] ep = "cpx" -> Resp("0", 200)
      [] ep = "admantium" -> Resp("ERROR: User not found", 200)

\* The `except Exception` branch of each handler.
ErrorResp(ep) ==
    CASE ep \in {"inbrain_success", "inbrain_failure"} -> Resp("ERROR", 500)
      [] ep = "cpx" -> Resp("0", 200)
      [] ep = "admantium" -> Resp("ERROR", 200)

-----------------------------------------------------------------------------
(* The store: motor calls on db.users and db.transactions *)

NewUser == [balance |-> 0, total_earned |-> 0, surveys_completed |-> 0]

Min(S) == CHOOSE x \in S : \A y \in S : x <= y

\* db.transactions.find_one({"transaction_id": x}): the first match in natural
\* order, as a sequence of length 0 (None) or 1.
FindOne(txs, x) ==
    LET hits == {i \in DOMAIN txs : txs[i].transaction_id = x}
    IN  IF hits = {} THEN <<>> ELSE <<txs[Min(hits)]>>

\* db.users.find_one({"user_id": u}) is not None
UserExists(us, u) == u \in DOMAIN us

\* db.users.update_one({"user_id": u}, {"$inc": {...}}): one atomic update of
\* the matched document; no match, no change.
\* An update that moves the balance and leaves the other counters behind.
IncUserBalanceOnly(us, u, dBalance, dEarned, dSurveys) ==
    [us EXCEPT ![u].balance = @ + dBalance]

\* An update that writes the new values over the stored ones ($set of values
\* computed without the current document) in place of $inc.
IncUserOverwrite(us, u, dBalance, dEarned, dSurveys) ==
    [us EXCEPT ![u] = [balance |-> dBalance, total_earned |-> dEarned,
                       surveys_completed |-> dSurveys]]

IncUser(us, u, dBalance, dEarned, dSurveys) ==
    IF u \in DOMAIN us
    THEN [us EXCEPT ![u] = [balance |-> @.balance + dBalance,
                            total_earned |-> @.total_earned + dEarned,
                            surveys_completed |-> @.surveys_completed + dSurveys]]
    ELSE us

\* db.transactions.insert_one(row)
InsertOne(txs, row) == Append(txs, row)

\* db.transactions.update_one({"transaction_id": x}, {"$set": {"status": st}}):
\* the first match is updated; no match, no change.
SetStatus(txs, x, st) ==
    LET hits == {i \in DOMAIN txs : txs[i].transaction_id = x}
    IN  IF hits = {} THEN txs
        ELSE [txs EXCEPT ![Min(hits)] = [@ EXCEPT !.status = st]]

Row(x, u, provider, reward_type, points, status) ==
    [transaction_id |-> x, user_id |-> u, provider |-> provider,
     reward_type |-> reward_type, points |-> points, status |-> status]

\* int(amount_local): truncation toward zero of a float given in halves
IntOfHalves(h) == IF h >= 0 THEN h \div 2 ELSE -((-h) \div 2)

Abs(n) == IF n < 0 THEN -n ELSE n

-----------------------------------------------------------------------------
(* Tasks.  A task is idle, inside a handler (pc names the store call it is  *)
(* about to await), or done with the response it returned.                  *)

Free(t) == pc[t] \in {"idle", "done"}

Busy(t) == ~Free(t)

Quiescent == \A t \in Tasks : Free(t)

\* First store call of each handler.
Entry(ep) ==
    CASE ep = "inbrain_success" -> "is_find_txn"
      [] ep = "inbrain_failure" -> "if_find_txn"
      [] ep = "cpx" -> "cpx_find_txn"
      [] ep = "admantium" -> "adm_find_user"

\* The label that follows `label` in a straight-line run of store calls, or
\* "return" after the last one.
After(order, label) ==
    LET i == CHOOSE k \in DOMAIN order : order[k] = label
    IN  IF i < Len(order) THEN order[i + 1] ELSE "return"

\* `return PlainTextResponse(...)`: the handling ends.
Return(t, r) ==
    /\ pc' = [pc EXCEPT ![t] = "done"]
    /\ resp' = [resp EXCEPT ![t] = r]
    /\ accepted' = IF r = AcceptedResp(req[t].ep) THEN accepted \cup {req[t]}
                   ELSE accepted
    /\ req' = [req EXCEPT ![t] = NoReq]
    /\ existing' = [existing EXCEPT ![t] = <<>>]
    /\ wrote' = [wrote EXCEPT ![t] = 0]

\* The handler goes on to its next store call.
Goto(t, label) ==
    /\ pc' = [pc EXCEPT ![t] = label]
    /\ UNCHANGED <<resp, accepted, req>>

\* After a store write: on to the next store call of the run, or the
\* handler's final `return` of its accepted literal.
AfterWrite(t, order, label) ==
    IF After(order, label) = "return"
    THEN Return(t, AcceptedResp(req[t].ep))
    ELSE /\ Goto(t, After(order, label))
         /\ wrote' = [wrote EXCEPT ![t] = wrote[t] + 1]
         /\ UNCHANGED existing

\* A users.update_one of task t took effect.
Applied(t) == ledger' = ledger (+) SetToBag({req[t]})

\* A postback arrives and its handler runs up to its first store call: the
\* parameters are read and the signature is checked without suspending.
Receive(t, r) ==
    /\ Free(t)
    /\ \A t2 \in Tasks : t2 < t => Busy(t2)
    /\ delivered < MaxDeliveries
    /\ delivered' = delivered + 1
    /\ IF SigOK(r, cpxSecureHash)
       THEN /\ pc' = [pc EXCEPT ![t] = Entry(r.ep)]
            /\ req' = [req EXCEPT ![t] = Event(r, cpxSecureHash)]
            /\ resp' = [resp EXCEPT ![t] = NoResp]
       ELSE /\ pc' = [pc EXCEPT ![t] = "done"]
            /\ req' = [req EXCEPT ![t] = NoReq]
            /\ resp' = [resp EXCEPT ![t] = SigMismatchResp(r.ep)]
    /\ mismatch' = [mismatch EXCEPT
                       ![t] = IF SigDiffers(r, cpxSecureHash) THEN r.ep ELSE ""]
    /\ UNCHANGED <<users, transactions, cpxSecureHash, withdrawals, pending,
                   existing, faults, ledger, accepted, midFailed, wrote>>

\* The store call a busy task awaits raises; `except Exception` answers.
StoreRaises(t) ==
    /\ Busy(t)
    /\ faults < MaxFaults
    /\ faults' = faults + 1
    /\ midFailed' = IF wrote[t] = 1 THEN midFailed \cup {req[t]} ELSE midFailed
    /\ Return(t, ErrorResp(req[t].ep))
    /\ UNCHANGED <<users, transactions, cpxSecureHash, withdrawals, pending,
                   delivered, ledger, mismatch>>

-----------------------------------------------------------------------------
(* inbrain_success_callback *)

\* Check for duplicate transaction
InbrainSuccessFindTxn(t) ==
    /\ pc[t] = "is_find_txn"
    /\ LET found == FindOne(transactions, req[t].tid)
       IN  IF found # <<>>
           THEN Return(t, Resp("OK", 200))
           ELSE /\ Goto(t, "is_find_user")
                /\ existing' = [existing EXCEPT ![t] = found]
                /\ UNCHANGED wrote
    /\ UNCHANGED <<users, transactions, cpxSecureHash, withdrawals, pending,
                   mismatch, delivered, faults, ledger, midFailed>>

\* The two store writes of the credit, in the order the handler issues them.
\* The two writes in the other order: record the row, then move the counters.
InbrainSuccessWritesRowFirst == <<"is_insert", "is_inc">>

InbrainSuccessWrites == <<"is_inc", "is_insert">>

\* Find user; credit only if reward > 0
InbrainSuccessFindUser(t) ==
    /\ pc[t] = "is_find_user"
    /\ IF ~UserExists(users, req[t].user)
       THEN Return(t, Resp("USER_NOT_FOUND", 404))
       ELSE IF req[t].amount > 0
            THEN Goto(t, InbrainSuccessWrites[1]) /\ UNCHANGED <<existing, wrote>>
            ELSE Return(t, Resp("OK", 200))
    /\ UNCHANGED <<users, transactions, cpxSecureHash, withdrawals, pending,
                   mismatch, delivered, faults, ledger, midFailed>>

InbrainSuccessInc(t) ==
    /\ pc[t] = "is_inc"
    /\ users' = IncUser(users, req[t].user, req[t].amount, req[t].amount, 1)
    /\ Applied(t)
    /\ AfterWrite(t, InbrainSuccessWrites, "is_inc")
    /\ UNCHANGED <<transactions, cpxSecureHash, withdrawals, pending,
                   mismatch, delivered, faults, midFailed>>

InbrainSuccessInsert(t) ==
    /\ pc[t] = "is_insert"
    /\ transactions' = InsertOne(transactions,
            Row(req[t].tid, req[t].user, "inbrain", "credit", req[t].amount,
                "completed"))
    /\ AfterWrite(t, InbrainSuccessWrites, "is_insert")
    /\ UNCHANGED <<users, cpxSecureHash, withdrawals, pending,
                   mismatch, delivered, faults, ledger, midFailed>>

inbrain_success_callback(t) ==
    \/ InbrainSuccessFindTxn(t)
    \/ InbrainSuccessFindUser(t)
    \/ InbrainSuccessInc(t)
    \/ InbrainSuccessInsert(t)

-----------------------------------------------------------------------------
(* inbrain_failure_callback *)

InbrainFailureFindTxn(t) ==
    /\ pc[t] = "if_find_txn"
    /\ LET found == FindOne(transactions, req[t].tid)
       IN  IF found # <<>>
           THEN Return(t, Resp("OK", 200))
           ELSE /\ Goto(t, IF req[t].amount > 0 THEN "if_find_user" ELSE "if_insert")
                /\ existing' = [existing EXCEPT ![t] = found]
                /\ UNCHANGED wrote
    /\ UNCHANGED <<users, transactions, cpxSecureHash, withdrawals, pending,
                   mismatch, delivered, faults, ledger, midFailed>>

\* If there's a disqualification reward, credit it (when the user exists)
InbrainFailureFindUser(t) ==
    /\ pc[t] = "if_find_user"
    /\ Goto(t, IF UserExists(users, req[t].user) THEN "if_inc" ELSE "if_insert")
    /\ UNCHANGED <<users, transactions, cpxSecureHash, withdrawals, pending,
                   mismatch, existing, delivered, faults, ledger, midFailed, wrote>>

InbrainFailureInc(t) ==
    /\ pc[t] = "if_inc"
    /\ users' = IncUser(users, req[t].user, req[t].amount, req[t].amount, 0)
    /\ Applied(t)
    /\ Goto(t, "if_insert")
    /\ wrote' = [wrote EXCEPT ![t] = wrote[t] + 1]
    /\ UNCHANGED <<transactions, cpxSecureHash, withdrawals, pending,
                   mismatch, existing, delivered, faults, midFailed>>

InbrainFailureInsert(t) ==
    /\ pc[t] = "if_insert"
    /\ transactions' = InsertOne(transactions,
            Row(req[t].tid, req[t].user, "inbrain", "disqualification",
                req[t].amount, "disqualified"))
    /\ Return(t, Resp("OK", 200))
    /\ UNCHANGED <<users, cpxSecureHash, withdrawals, pending,
                   mismatch, delivered, faults, ledger, midFailed>>

inbrain_failure_callback(t) ==
    \/ InbrainFailureFindTxn(t)
    \/ InbrainFailureFindUser(t)
    \/ InbrainFailureInc(t)
    \/ InbrainFailureInsert(t)

-----------------------------------------------------------------------------
(* cpx_research_callback *)

\* points = int(amount_local)
CpxPoints(r) == IntOfHalves(r.amount)

\* Check for duplicate
CpxFindTxn(t) ==
    /\ pc[t] = "cpx_find_txn"
    /\ existing' = [existing EXCEPT ![t] = FindOne(transactions, req[t].tid)]
    /\ Goto(t, "cpx_find_user")
    /\ UNCHANGED <<users, transactions, cpxSecureHash, withdrawals, pending,
                   mismatch, delivered, faults, ledger, midFailed, wrote>>

CpxCreditWrites == <<"cpx_credit_inc", "cpx_credit_insert">>

CpxReverseWrites == <<"cpx_reverse_inc", "cpx_reverse_mark">>

\* status == 2: a transaction already marked reversed is answered at once
CpxAlreadyReversed(row) == row # <<>> /\ row[1].status = "reversed"

\* Find user, then branch on status
CpxFindUser(t) ==
    /\ pc[t] = "cpx_find_user"
    /\ IF ~UserExists(users, req[t].user)
       THEN Return(t, Resp("0", 200))
       ELSE IF req[t].status = "1"
            THEN IF existing[t] # <<>>
                 THEN Return(t, Resp("1", 200))
                 ELSE Goto(t, CpxCreditWrites[1]) /\ UNCHANGED <<existing, wrote>>
            ELSE IF req[t].status = "2"
                 THEN IF CpxAlreadyReversed(existing[t])
                      THEN Return(t, Resp("1", 200))
                      ELSE Goto(t, CpxReverseWrites[1])
                           /\ UNCHANGED <<existing, wrote>>
                 ELSE Return(t, Resp("1", 200))
    /\ UNCHANGED <<users, transactions, cpxSecureHash, withdrawals, pending,
                   mismatch, delivered, faults, ledger, midFailed>>

CpxCreditInc(t) ==
    /\ pc[t] = "cpx_credit_inc"
    /\ users' = IncUser(users, req[t].user, CpxPoints(req[t]), CpxPoints(req[t]), 1)
    /\ Applied(t)
    /\ AfterWrite(t, CpxCreditWrites, "cpx_credit_inc")
    /\ UNCHANGED <<transactions, cpxSecureHash, withdrawals, pending,
                   mismatch, delivered, faults, midFailed>>

CpxCreditInsert(t) ==
    /\ pc[t] = "cpx_credit_insert"
    /\ transactions' = InsertOne(transactions,
            Row(req[t].tid, req[t].user, "cpx_research", "credit",
                CpxPoints(req[t]), "completed"))
    /\ AfterWrite(t, CpxCreditWrites, "cpx_credit_insert")
    /\ UNCHANGED <<users, cpxSecureHash, withdrawals, pending,
                   mismatch, delivered, faults, ledger, midFailed>>

\* The amount a CPX reversal takes off the counters.
CpxReversalAmount(r, row) == CpxPoints(r)

\* Reverse/deduct points
CpxReverseInc(t) ==
    /\ pc[t] = "cpx_reverse_inc"
    /\ LET d == CpxReversalAmount(req[t], existing[t])
       IN  users' = IncUser(users, req[t].user, -d, -d, -1)
    /\ Applied(t)
    /\ AfterWrite(t, CpxReverseWrites, "cpx_reverse_inc")
    /\ UNCHANGED <<transactions, cpxSecureHash, withdrawals, pending,
                   mismatch, delivered, faults, midFailed>>

\* Update existing transaction or create reversal record
CpxReverseMark(t) ==
    /\ pc[t] = "cpx_reverse_mark"
    /\ transactions' =
          IF existing[t] # <<>>
          THEN SetStatus(transactions, req[t].tid, "reversed")
          ELSE InsertOne(transactions,
                   Row(req[t].tid, req[t].user, "cpx_research", "reversal",
                       -CpxPoints(req[t]), "reversed"))
    /\ AfterWrite(t, CpxReverseWrites, "cpx_reverse_mark")
    /\ UNCHANGED <<users, cpxSecureHash, withdrawals, pending,
                   mismatch, delivered, faults, ledger, midFailed>>

cpx_research_callback(t) ==
    \/ CpxFindTxn(t)
    \/ CpxFindUser(t)
    \/ CpxCreditInc(t)
    \/ CpxCreditInsert(t)
    \/ CpxReverseInc(t)
    \/ CpxReverseMark(t)

-----------------------------------------------------------------------------
(* admantium_callback *)

\* Find user
AdmantiumFindUser(t) ==
    /\ pc[t] = "adm_find_user"
    /\ IF ~UserExists(users, req[t].user)
       THEN Return(t, Resp("ERROR: User not found", 200))
       ELSE Goto(t, "adm_find_txn") /\ UNCHANGED <<existing, wrote>>
    /\ UNCHANGED <<users, transactions, cpxSecureHash, withdrawals, pending,
                   mismatch, delivered, faults, ledger, midFailed>>

AdmantiumCreditWrites == <<"adm_credit_inc", "adm_credit_insert">>

AdmantiumRejectWrites == <<"adm_reject_inc", "adm_reject_mark">>

\* status == "credited": only a row with status completed counts as duplicate
\* A duplicate check that compares the row's status with the postback's word
\* for a credit, which no row carries.
AdmantiumAlreadyCreditedByWord(row) == row # <<>> /\ row[1].status = "credited"

AdmantiumAlreadyCredited(row) == row # <<>> /\ row[1].status = "completed"

\* status == "rejected": only a row with status rejected counts as duplicate
AdmantiumAlreadyRejected(row) == row # <<>> /\ row[1].status = "rejected"

\* Check for duplicate, then branch on status
AdmantiumFindTxn(t) ==
    /\ pc[t] = "adm_find_txn"
    /\ LET found == FindOne(transactions, req[t].tid)
       IN  IF req[t].status = "credited"
           THEN IF AdmantiumAlreadyCredited(found)
                THEN Return(t, Resp("OK", 200))
                ELSE /\ Goto(t, AdmantiumCreditWrites[1])
                     /\ existing' = [existing EXCEPT ![t] = found]
                     /\ UNCHANGED wrote
           ELSE IF req[t].status = "rejected"
                THEN IF AdmantiumAlreadyRejected(found)
                     THEN Return(t, Resp("OK", 200))
                     ELSE /\ Goto(t, AdmantiumRejectWrites[1])
                          /\ existing' = [existing EXCEPT ![t] = found]
                          /\ UNCHANGED wrote
                ELSE Return(t, Resp("OK", 200))
    /\ UNCHANGED <<users, transactions, cpxSecureHash, withdrawals, pending,
                   mismatch, delivered, faults, ledger, midFailed>>

AdmantiumCreditInc(t) ==
    /\ pc[t] = "adm_credit_inc"
    /\ users' = IncUser(users, req[t].user, req[t].amount, req[t].amount, 1)
    /\ Applied(t)
    /\ AfterWrite(t, AdmantiumCreditWrites, "adm_credit_inc")
    /\ UNCHANGED <<transactions, cpxSecureHash, withdrawals, pending,
                   mismatch, delivered, faults, midFailed>>

AdmantiumCreditInsert(t) ==
    /\ pc[t] = "adm_credit_insert"
    /\ transactions' = InsertOne(transactions,
            Row(req[t].tid, req[t].user, "admantium", "credit", req[t].amount,
                "completed"))
    /\ AfterWrite(t, AdmantiumCreditWrites, "adm_credit_insert")
    /\ UNCHANGED <<users, cpxSecureHash, withdrawals, pending,
                   mismatch, delivered, faults, ledger, midFailed>>

\* points_to_deduct = abs(reward)
AdmantiumPointsToDeduct(r) == Abs(r.amount)

AdmantiumRejectInc(t) ==
    /\ pc[t] = "adm_reject_inc"
    /\ LET d == AdmantiumPointsToDeduct(req[t])
       IN  users' = IncUser(users, req[t].user, -d, -d, -1)
    /\ Applied(t)
    /\ AfterWrite(t, AdmantiumRejectWrites, "adm_reject_inc")
    /\ UNCHANGED <<transactions, cpxSecureHash, withdrawals, pending,
                   mismatch, delivered, faults, midFailed>>

AdmantiumRejectMark(t) ==
    /\ pc[t] = "adm_reject_mark"
    /\ transactions' =
          IF existing[t] # <<>>
          THEN SetStatus(transactions, req[t].tid, "rejected")
          ELSE InsertOne(transactions,
                   Row(req[t].tid, req[t].user, "admantium", "reversal",
                       -AdmantiumPointsToDeduct(req[t]), "rejected"))
    /\ AfterWrite(t, AdmantiumRejectWrites, "adm_reject_mark")
    /\ UNCHANGED <<users, cpxSecureHash, withdrawals, pending,
                   mismatch, delivered, faults, ledger, midFailed>>

admantium_callback(t) ==
    \/ AdmantiumFindUser(t)
    \/ AdmantiumFindTxn(t)
    \/ AdmantiumCreditInc(t)
    \/ AdmantiumCreditInsert(t)
    \/ AdmantiumRejectInc(t)
    \/ AdmantiumRejectMark(t)

-----------------------------------------------------------------------------
(* The system *)

Init ==
    /\ users = [u \in RegisteredUsers |-> NewUser]
    /\ transactions = <<>>
    /\ withdrawals = <<>>
    /\ pending = NoReq
    /\ cpxSecureHash \in CpxSecureHashValues
    /\ pc = [t \in Tasks |-> "idle"]
    /\ req = [t \in Tasks |-> NoReq]
    /\ existing = [t \in Tasks |-> <<>>]
    /\ resp = [t \in Tasks |-> NoResp]
    /\ wrote = [t \in Tasks |-> 0]
    /\ mismatch = [t \in Tasks |-> ""]
    /\ delivered = 0
    /\ faults = 0
    /\ ledger = EmptyBag
    /\ accepted = {}
    /\ midFailed = {}

\* The store calls of the handlers, one step each.
Handle(t) ==
    \/ inbrain_success_callback(t)
    \/ inbrain_failure_callback(t)
    \/ cpx_research_callback(t)
    \/ admantium_callback(t)
    \/ StoreRaises(t)

\* Any postbacks, handled concurrently.
Next ==
    \E t \in Tasks :
        \/ \E r \in Requests : Receive(t, r)
        \/ Handle(t)

Spec == Init /\ [][Next]_vars

\* A provider that waits for the response before it sends the next postback.
NextSequential ==
    \E t \in Tasks :
        \/ Quiescent /\ \E r \in Requests : Receive(t, r)
        \/ Handle(t)

SpecSequential == Init /\ [][NextSequential]_vars

\* Postbacks of every endpoint and status about one registered user and one
\* amount per provider, with any signature, handled concurrently.
SingleRequests ==
    {r \in Requests : /\ r.user \in RegisteredUsers
                      /\ r.amount = (IF r.ep = "cpx" THEN 3 ELSE 1)}

NextSingle ==
    \E t \in Tasks :
        \/ \E r \in SingleRequests : Receive(t, r)
        \/ Handle(t)

SpecSingle == Init /\ [][NextSingle]_vars

\* The same postbacks, from providers that wait for the response.
NextSingleSequential ==
    \E t \in Tasks :
        \/ Quiescent /\ \E r \in SingleRequests : Receive(t, r)
        \/ Handle(t)

SpecSingleSequential == Init /\ [][NextSingleSequential]_vars

\* Correctly signed credit postbacks for a registered user.
CreditRequests ==
    {r \in Requests :
        /\ r.user \in RegisteredUsers
        /\ r.sig \in {InbrainExpectedSig(r), CpxExpectedHash(r, CpxProviderSecret),
                       AdmantiumExpectedSig(r)}
        /\ \/ r.ep = "inbrain_success" /\ r.amount > 0
           \/ r.ep = "cpx" /\ r.status = "1"
           \/ r.ep = "admantium" /\ r.status = "credited"}

NextCredit ==
    \E t \in Tasks :
        \/ \E r \in CreditRequests : Receive(t, r)
        \/ inbrain_success_callback(t)
        \/ CpxFindTxn(t) \/ CpxFindUser(t) \/ CpxCreditInc(t) \/ CpxCreditInsert(t)
        \/ AdmantiumFindUser(t) \/ AdmantiumFindTxn(t)
        \/ AdmantiumCreditInc(t) \/ AdmantiumCreditInsert(t)
        \/ StoreRaises(t)

SpecCredit == Init /\ [][NextCredit]_vars

-----------------------------------------------------------------------------
(* Vocabulary of the properties *)

\* The provider name a handler writes on its Transaction rows.
Provider(e) ==
    CASE e.ep \in {"inbrain_success", "inbrain_failure"} -> "inbrain"
      [] e.ep = "cpx" -> "cpx_research"
      [] e.ep = "admantium" -> "admantium"

\* The points an event carries.
Points(e) == IF e.ep = "cpx" THEN CpxPoints(e) ELSE e.amount

Events == {Event(r, h) : r \in Requests, h \in CpxSecureHashValues}

\* Validly signed credit events addressed to an existing user.
CreditEvents ==
    {e \in Events :
        /\ e.signed
        /\ e.user \in RegisteredUsers
        /\ \/ e.ep = "inbrain_success" /\ e.amount > 0
           \/ e.ep = "cpx" /\ e.status = "1"
           \/ e.ep = "admantium" /\ e.status = "credited"}

\* Validly signed reversal events addressed to an existing user.
ReversalEvents ==
    {e \in Events :
        /\ e.signed
        /\ e.user \in RegisteredUsers
        /\ \/ e.ep = "cpx" /\ e.status = "2"
           \/ e.ep = "admantium" /\ e.status = "rejected"}

\* The row a credit event records.
CreditRow(e) == Row(e.tid, e.user, Provider(e), "credit", Points(e), "completed")

\* Number of users.update_one calls that took effect for events in S.
Effects(S) ==
    LET hit == {e \in BagToSet(ledger) : e \in S}
    IN  BagCardinality([e \in hit |-> CopiesIn(e, ledger)])

\* Number of Transaction rows of a provider with an external id.
RowCount(provider, x) ==
    Cardinality({i \in DOMAIN transactions :
                    /\ transactions[i].provider = provider
                    /\ transactions[i].transaction_id = x})

\* Nothing but deliveries of event e has left a trace in the store.
OnlyCredit(e) ==
    /\ BagToSet(ledger) \subseteq {e}
    /\ \A i \in DOMAIN transactions : transactions[i] = CreditRow(e)

CreditedOnce(e) ==
    /\ users[e.user].balance = Points(e)
    /\ users[e.user].total_earned = Points(e)
    /\ users[e.user].surveys_completed = 1

-----------------------------------------------------------------------------
(* Properties *)

\* C1: when only deliveries of one valid credit event for an existing user are
\* handled, concurrently and with no store call raising, the balance never
\* exceeds `points`, there is never more than one Transaction row, and once a
\* delivery was accepted and all handlers are done the balance moved by
\* exactly `points` and exactly one row exists.
C1_ConcurrentDuplicatesCreditOnce ==
    \A e \in CreditEvents :
        (faults = 0 /\ OnlyCredit(e)) =>
            /\ users[e.user].balance <= Points(e)
            /\ RowCount(Provider(e), e.tid) <= 1
            /\ (Quiescent /\ e \in accepted) =>
                   /\ users[e.user].balance = Points(e)
                   /\ RowCount(Provider(e), e.tid) = 1

\* C2: when a provider delivers one valid credit event for an existing user,
\* one delivery at a time, and redelivers it after a store call raised, the
\* counters never move by more than one application of the event, and once a
\* delivery was accepted they moved by exactly (+points, +points, +1).
C2_ExactlyOnceUnderRetry ==
    \A e \in CreditEvents :
        OnlyCredit(e) =>
            /\ users[e.user].balance <= Points(e)
            /\ users[e.user].total_earned <= Points(e)
            /\ users[e.user].surveys_completed <= 1
            /\ (Quiescent /\ e \in accepted) => CreditedOnce(e)

\* Every counter update so far came from a delivery whose signature matched the
\* recomputed digest.
AllSigned == \A e \in BagToSet(ledger) : e.signed

\* The reversal events that name external id x at endpoint ep.
ReversalsOf(ep, x) == {e \in ReversalEvents : e.ep = ep /\ e.tid = x}

\* Task t takes the users.update_one step of a reversal.
ReversalApplies(t) ==
    /\ pc[t] \in {CpxReverseWrites[1], AdmantiumRejectWrites[1]}
    /\ ledger' = ledger (+) SetToBag({req[t]})

\* The row task t found is a completed credit, by the same provider, of the
\* user it is reversing for.
FoundCompletedCredit(t) ==
    /\ existing[t] # <<>>
    /\ existing[t][1].provider = Provider(req[t])
    /\ existing[t][1].status = "completed"
    /\ existing[t][1].reward_type = "credit"
    /\ existing[t][1].user_id = req[t].user

\* C3: a validly signed reversal that is applied to a transaction recorded as a
\* completed credit of P points takes exactly P, the points stored on that row, off the
\* user's balance and total_earned, whatever amount its payload carries.
C3_ReversalDebitsRecordedPoints ==
    [][\A t \in Tasks :
          (req[t].signed /\ ReversalApplies(t) /\ FoundCompletedCredit(t)) =>
              LET u == req[t].user
                  P == existing[t][1].points
              IN  /\ users'[u].balance = users[u].balance - P
                  /\ users'[u].total_earned = users[u].total_earned - P]_vars

\* C4: as long as no store call raises, the reversal deliveries of one
\* external id, handled in any interleaving, decrement the counters once at
\* most.
C4_ReversalAppliedAtMostOnce ==
    \A ep \in {"cpx", "admantium"}, x \in TxnIds :
        faults = 0 => Effects(ReversalsOf(ep, x)) <= 1

\* C5: a delivery whose signature differs from the digest the server
\* recomputes is answered at once with its provider's failure response and
\* its handler makes no store call.
C5_SignatureMismatchRejected ==
    \A t \in Tasks :
        mismatch[t] # "" =>
            /\ pc[t] = "done"
            /\ resp[t] = SigMismatchResp(mismatch[t])
            /\ wrote[t] = 0
            /\ req[t] = NoReq

\* A CPX delivery with a wrong hash was refused after an earlier credit, and
\* the store still holds exactly that credit.
C5_Witness ==
    \E t \in Tasks :
        /\ mismatch[t] = "cpx"
        /\ resp[t] = Resp("0", 200)
        /\ Len(transactions) = 1
        /\ users["u1"].balance > 0

\* C6: no delivery whose signature was not compared with a recomputed digest
\* (signature absent or empty, or secret not configured) changes the store or
\* is accepted.
C6_UnsignedDeliveriesRejected ==
    \A e \in BagToSet(ledger) \cup accepted : e.signed

\* C7: when a credit of P points and its reversal for one external id have
\* both been delivered and accepted, one delivery at a time and in either
\* order, the balance has not gone below its starting value 0 and the reversal
\* was applied once at most.
C7_OrderIndependence ==
    \A c \in CreditEvents, r \in ReversalEvents :
        ( /\ c.ep = r.ep /\ c.tid = r.tid /\ c.user = r.user
          /\ Points(c) = Points(r)
          /\ Quiescent /\ faults = 0
          /\ c \in accepted /\ r \in accepted
          /\ BagToSet(ledger) \subseteq {c, r} ) =>
            /\ users[c.user].balance >= 0
            /\ CopiesIn(r, ledger) <= 1

\* C8: a credit event whose handler failed between its two store writes and
\* that was answered with the accepted literal has had its balance effect
\* applied.
C8_AcceptedAfterMidFailureIsApplied ==
    \A e \in CreditEvents :
        (e \in midFailed /\ e \in accepted) =>
            /\ CopiesIn(e, ledger) >= 1
            /\ users[e.user].balance >= Points(e)
            /\ users[e.user].total_earned >= Points(e)

\* A credit whose handler failed between its writes was redelivered and
\* accepted.
C8_Witness ==
    \E e \in CreditEvents :
        /\ e \in midFailed /\ e \in accepted
        /\ Quiescent
        /\ RowCount(Provider(e), e.tid) = 1

\* C9: after validly signed deliveries in any interleaving, the transactions
\* collection never holds two rows with the same provider and external id.
C9_UniqueProviderExternalId ==
    \A i, j \in DOMAIN transactions :
        ( /\ AllSigned
          /\ transactions[i].provider = transactions[j].provider
          /\ transactions[i].transaction_id = transactions[j].transaction_id )
            => i = j

\* C10: a quiescent state reached by validly signed deliveries whose
\* Transaction log holds no row for a user, like the initial state, has the
\* initial state's balance and total_earned for that user.
C10_CountersFollowLog ==
    \A u \in RegisteredUsers :
        ( /\ Quiescent /\ AllSigned
          /\ \A i \in DOMAIN transactions : transactions[i].user_id # u ) =>
            /\ users[u].balance = NewUser.balance
            /\ users[u].total_earned = NewUser.total_earned

\* The outcome of event e is a credit.
IsCredit(e) ==
    \/ e.ep = "inbrain_success"
    \/ e.ep = "cpx" /\ e.status = "1"
    \/ e.ep = "admantium" /\ e.status = "credited"

\* The outcome of event e is a reversal.
IsReversal(e) ==
    \/ e.ep = "cpx" /\ e.status = "2"
    \/ e.ep = "admantium" /\ e.status = "rejected"

\* The collection holds a completed credit row of e's provider, external id
\* and user.
HasCompletedCredit(txs, e) ==
    \E i \in DOMAIN txs :
        /\ txs[i].provider = Provider(e)
        /\ txs[i].transaction_id = e.tid
        /\ txs[i].user_id = e.user
        /\ txs[i].reward_type = "credit"
        /\ txs[i].status = "completed"

\* Task t takes a step in which no store call raises.
Step(t) == pc'[t] # pc[t] /\ faults' = faults

\* Only validly signed deliveries of provider p have written to the store.
OnlyProvider(p) ==
    /\ AllSigned
    /\ \A e \in BagToSet(ledger) : Provider(e) = p
    /\ \A i \in DOMAIN transactions : transactions[i].provider = p

\* C11: while a validly signed credit delivery is handled, one delivery at a
\* time, and a completed credit row of its provider, external id and user is
\* in the collection, where only that provider's validly signed deliveries
\* have written to the store, no step of its handler writes to users or transactions,
\* and unless a store call raises it is answered with the accepted literal.
C11_SequentialDuplicateIsNoOp ==
    [][\A t \in Tasks :
          ( /\ Busy(t) /\ req[t].signed /\ IsCredit(req[t])
            /\ HasCompletedCredit(transactions, req[t])
            /\ OnlyProvider(Provider(req[t]))
            /\ Step(t) ) =>
              /\ store' = store
              /\ pc'[t] = "done" => resp'[t] = AcceptedResp(req[t].ep)]_vars

\* C12: no validly signed event whose user id matches no account is answered
\* with the accepted literal, and no Transaction row is left for such a user.
C12_UnknownUserLeavesNoTrace ==
    /\ \A e \in accepted : e.signed => e.user \in RegisteredUsers
    /\ \A i \in DOMAIN transactions : transactions[i].user_id \in RegisteredUsers

\* C13: as long as no credit has moved the counters for an external id, so
\* that no row of it was ever recorded as a completed credit, no validly signed
\* reversal of that external id moves the counters or is answered with the
\* accepted literal.
C13_ReversalWithoutTargetRejected ==
    \A r \in ReversalEvents :
        (\A e \in BagToSet(ledger) : e.tid = r.tid => IsReversal(e)) =>
            /\ CopiesIn(r, ledger) = 0
            /\ r \notin accepted

\* C14: for every validly signed event that was answered with the accepted
\* literal, where only its provider's validly signed deliveries have written
\* to the store, a Transaction row of its external id is in the store and, when it
\* carries points, its users.update_one has been applied.
C14_NoSuccessBeforeCommit ==
    \A e \in accepted :
        (e.signed /\ OnlyProvider(Provider(e))) =>
            /\ \E i \in DOMAIN transactions : transactions[i].transaction_id = e.tid
            /\ Points(e) # 0 => CopiesIn(e, ledger) >= 1

-----------------------------------------------------------------------------
(* Postbacks signed by the provider, with other amounts *)

\* The postback of endpoint ep for user u, external id x, amount a and status
\* st, carrying the digest its provider computes.
ValidRequest(ep, u, x, a, st) ==
    LET r == [ep |-> ep, user |-> u, tid |-> x, amount |-> a, status |-> st,
              sig |-> EmptyStr]
    IN  [r EXCEPT !.sig = ExpectedSig(r, CpxProviderSecret)]

\* Reward is a JSON integer (Inbrain) or an int query parameter (Admantium):
\* nothing keeps it positive.
SignedRewards == {-1, 0, 1}
\* amount_local is a float query parameter, in halves: -1.5, 0.0, 1.5.
SignedAmountsHalves == {-3, 0, 3}

AnyAmountRequests ==
    {ValidRequest(ep, u, x, a, "") :
        ep \in {"inbrain_success", "inbrain_failure"}, u \in RegisteredUsers,
        x \in TxnIds, a \in SignedRewards}
    \cup {ValidRequest("cpx", u, x, a, st) :
        u \in RegisteredUsers, x \in TxnIds, a \in SignedAmountsHalves,
        st \in {"1", "2"}}
    \cup {ValidRequest("admantium", u, x, a, st) :
        u \in RegisteredUsers, x \in TxnIds, a \in SignedRewards,
        st \in {"credited", "rejected"}}

\* Providers that wait for the response and send amounts of either sign.
NextAnyAmount ==
    \E t \in Tasks :
        \/ Quiescent /\ \E r \in AnyAmountRequests : Receive(t, r)
        \/ Handle(t)

SpecAnyAmount == Init /\ [][NextAnyAmount]_vars

\* Task t takes a users.update_one step.
UpdateApplies(t) == Busy(t) /\ ledger' = ledger (+) SetToBag({req[t]})

\* No counter of user u is lower in a than in b.
CountersAtLeast(a, b, u) ==
    /\ a[u].balance >= b[u].balance
    /\ a[u].total_earned >= b[u].total_earned
    /\ a[u].surveys_completed >= b[u].surveys_completed

\* C15: whatever amount the provider supplies, the users.update_one of a
\* validly signed credit outcome lowers none of balance, total_earned and surveys_completed,
\* and the users.update_one of a reversal outcome raises none of them.
C15_DirectionFixedByOutcome ==
    [][\A t \in Tasks :
          (UpdateApplies(t) /\ req[t].signed) =>
              /\ IsCredit(req[t]) => CountersAtLeast(users', users, req[t].user)
              /\ IsReversal(req[t]) => CountersAtLeast(users, users', req[t].user)]_vars

\* C16: when two validly signed credit events of two different providers with
\* the same external id, for an existing user, have both been delivered one at
\* a time and answered with the accepted literal, no store call having raised
\* and nothing else having moved the counters, each was applied exactly once.
C16_IdempotencyKeyIncludesProvider ==
    \A c1, c2 \in CreditEvents :
        ( /\ Provider(c1) # Provider(c2) /\ c1.tid = c2.tid
          /\ Quiescent /\ faults = 0
          /\ c1 \in accepted /\ c2 \in accepted
          /\ BagToSet(ledger) \subseteq {c1, c2} ) =>
            /\ CopiesIn(c1, ledger) = 1
            /\ CopiesIn(c2, ledger) = 1

\* The $inc document of the users.update_one of event e.
Delta(e) ==
    CASE e.ep = "inbrain_success" ->
            [balance |-> e.amount, total_earned |-> e.amount, surveys_completed |-> 1]
      [] e.ep = "inbrain_failure" ->
            [balance |-> e.amount, total_earned |-> e.amount, surveys_completed |-> 0]
      [] e.ep = "cpx" /\ e.status = "1" ->
            [balance |-> CpxPoints(e), total_earned |-> CpxPoints(e),
             surveys_completed |-> 1]
      [] e.ep = "cpx" /\ e.status = "2" ->
            [balance |-> -CpxPoints(e), total_earned |-> -CpxPoints(e),
             surveys_completed |-> -1]
      [] e.ep = "admantium" /\ e.status = "credited" ->
            [balance |-> e.amount, total_earned |-> e.amount, surveys_completed |-> 1]
      [] e.ep = "admantium" /\ e.status = "rejected" ->
            [balance |-> -Abs(e.amount), total_earned |-> -Abs(e.amount),
             surveys_completed |-> -1]

CounterFields == {"balance", "total_earned", "surveys_completed"}

\* Sum of one counter's deltas over the events S, each counted as often as bag
\* B holds it.
RECURSIVE SumDeltas(_, _, _)
SumDeltas(S, B, field) ==
    IF S = {} THEN 0
    ELSE LET e == CHOOSE x \in S : TRUE
         IN  CopiesIn(e, B) * Delta(e)[field] + SumDeltas(S \ {e}, B, field)

\* The events of bag B addressed to user u.
EventsFor(B, u) == {e \in BagToSet(B) : e.user = u}

\* C17: in every reachable state, also while a handler is suspended between
\* two store calls or after one has failed, each of balance, total_earned and
\* surveys_completed has moved by the deltas of exactly the same updates: no
\* counter is ahead of or behind another.
C17_NoPartialApplication ==
    \A u \in RegisteredUsers, field \in CounterFields :
        users[u][field] = NewUser[field] + SumDeltas(EventsFor(ledger, u), ledger, field)

\* A reversal is suspended between its two writes, after a credit whose
\* handler failed.
C17_Witness ==
    \E t \in Tasks :
        /\ pc[t] \in {CpxReverseWrites[2], AdmantiumRejectWrites[2]}
        /\ faults >= 1
        /\ BagCardinality(ledger) >= 2
        /\ users[req[t].user].balance # users[req[t].user].surveys_completed

-----------------------------------------------------------------------------
(* Postbacks with pairwise different external ids *)

\* The external id of the n-th delivery.
ExternalIds == <<"t1", "t2", "t3", "t4">>

\* The validly signed postbacks of every endpoint and status for a registered
\* user that carry external id x.
RequestsWithId(x) ==
    {ValidRequest(r.ep, r.user, x, r.amount, r.status) : r \in SingleRequests}

\* Every delivery carries a new external id; deliveries are handled
\* concurrently and no store call raises.
NextDistinctIds ==
    \E t \in Tasks :
        \/ /\ delivered < Len(ExternalIds)
           /\ \E r \in RequestsWithId(ExternalIds[delivered + 1]) : Receive(t, r)
        \/ inbrain_success_callback(t)
        \/ inbrain_failure_callback(t)
        \/ cpx_research_callback(t)
        \/ admantium_callback(t)

SpecDistinctIds == Init /\ [][NextDistinctIds]_vars

\* C18: when events with pairwise different external ids for one user have
\* been handled concurrently, in any interleaving, and all handlers are done,
\* each counter equals its initial value plus the sum of the deltas of the
\* accepted events: no update is lost.
C18_NoLostUpdates ==
    Quiescent =>
        \A u \in RegisteredUsers, field \in CounterFields :
            users[u][field] =
                NewUser[field]
                + SumDeltas({e \in accepted : e.user = u}, SetToBag(accepted), field)

\* Two handlers that ran at the same time have both been accepted, for
\* different external ids.
C18_Witness ==
    /\ Quiescent
    /\ \A t \in {1, 2} : pc[t] = "done" /\ resp[t].code = 200 /\ resp[t].body \in {"OK", "1"}
    /\ \E e1, e2 \in accepted : e1.tid # e2.tid /\ e1.user = e2.user
    /\ users["u1"].balance # 0

\* The statuses a reversal writes on a row: "reversed" (CPX) and "rejected"
\* (Admantium).
ReversedStatuses == {"reversed", "rejected"}

\* Every handler under way is handling a validly signed delivery.
HandlingSigned == \A t \in Tasks : Busy(t) => req[t].signed

\* C19: among validly signed deliveries, no step deletes a Transaction row, and
\* the only change a step makes to an existing row is to turn the status of a `completed` row into a reversed
\* one (which, a reversed row never being changed again, happens once at most).
C19_TransactionLifecycle ==
    [][(AllSigned /\ HandlingSigned) =>
          /\ Len(transactions') >= Len(transactions)
          /\ \A i \in DOMAIN transactions :
                \/ transactions'[i] = transactions[i]
                \/ /\ transactions[i].status = "completed"
                   /\ \E st \in ReversedStatuses :
                         transactions'[i] = [transactions[i] EXCEPT !.status = st]]_vars

\* C20: when a validly signed reversal, handled one delivery at a time among
\* its provider's validly signed deliveries, is answered with the accepted
\* literal while a completed credit row of its provider, external id and user
\* is in the collection, no such row is left with status `completed`.
C20_AcceptedReversalMarksRow ==
    [][\A t \in Tasks :
          ( /\ Busy(t) /\ req[t].signed /\ IsReversal(req[t])
            /\ OnlyProvider(Provider(req[t]))
            /\ HasCompletedCredit(transactions, req[t])
            /\ pc'[t] = "done"
            /\ resp'[t] = AcceptedResp(req[t].ep) ) =>
              ~HasCompletedCredit(transactions', req[t])]_vars

-----------------------------------------------------------------------------
(* Withdrawals: POST /api/withdrawals *)

\* `if data.amount < 500`: the smallest amount a withdrawal may ask for
MinWithdrawal == 500

\* WithdrawalRequest.amount is an int: zero, just under the minimum, the
\* minimum, just over it.
WithdrawalAmounts == {0, MinWithdrawal - 1, MinWithdrawal, MinWithdrawal + 1}

\* The request of an authenticated user: get_current_user resolves the
\* session or the token to a document of db.users, or answers 401.
WithdrawalReq(u, a) ==
    [ep |-> "withdrawal", user |-> u, tid |-> "", amount |-> a, status |-> "",
     signed |-> TRUE]

\* The checks without the minimum: any positive amount the balance covers.
WithdrawalCheckNoMinimum(a, balance) ==
    IF a <= 0 THEN Resp("Amount must be positive", 400)
    ELSE IF a > balance THEN Resp("Insufficient balance", 400)
    ELSE NoResp

\* The three checks of the handler, on the document get_current_user read.
WithdrawalCheck(a, balance) ==
    IF a <= 0 THEN Resp("Amount must be positive", 400)
    ELSE IF a > balance THEN Resp("Insufficient balance", 400)
    ELSE IF a < MinWithdrawal
         THEN Resp("Minimum withdrawal is 500 points", 400)
    ELSE NoResp

\* The withdrawal document the handler builds.
Withdrawal(u, a) == [user_id |-> u, amount |-> a, status |-> "pending"]

\* A withdrawal request arrives: get_current_user reads the user's document
\* and the handler checks the amount against it without suspending.
WithdrawalReceive(t, u, a) ==
    /\ Free(t)
    /\ \A t2 \in Tasks : t2 < t => Busy(t2)
    /\ delivered < MaxDeliveries
    /\ UserExists(users, u)
    /\ delivered' = delivered + 1
    /\ IF WithdrawalCheck(a, users[u].balance) = NoResp
       THEN /\ pc' = [pc EXCEPT ![t] = "wd_insert"]
            /\ req' = [req EXCEPT ![t] = WithdrawalReq(u, a)]
            /\ resp' = [resp EXCEPT ![t] = NoResp]
       ELSE /\ pc' = [pc EXCEPT ![t] = "done"]
            /\ req' = [req EXCEPT ![t] = NoReq]
            /\ resp' = [resp EXCEPT ![t] = WithdrawalCheck(a, users[u].balance)]
    /\ mismatch' = [mismatch EXCEPT ![t] = ""]
    /\ UNCHANGED <<users, transactions, cpxSecureHash, withdrawals, pending,
                   existing,
                   faults, ledger, accepted, midFailed, wrote>>

\* await db.withdrawals.insert_one(withdrawal)
WithdrawalInsert(t) ==
    /\ pc[t] = "wd_insert"
    /\ withdrawals' = Append(withdrawals,
                             Withdrawal(req[t].user, req[t].amount))
    /\ pc' = [pc EXCEPT ![t] = "wd_inc"]
    /\ wrote' = [wrote EXCEPT ![t] = 1]
    /\ UNCHANGED <<users, transactions, cpxSecureHash, pending, req, existing,
                   resp, delivered, faults, ledger, accepted, midFailed,
                   mismatch>>

\* await db.users.update_one({"user_id": ...}, {"$inc": {"balance": -amount}})
\* and the return of the withdrawal document.
WithdrawalInc(t) ==
    /\ pc[t] = "wd_inc"
    /\ users' = IncUser(users, req[t].user, -req[t].amount, 0, 0)
    /\ pc' = [pc EXCEPT ![t] = "done"]
    /\ resp' = [resp EXCEPT ![t] = Resp("pending", 200)]
    /\ req' = [req EXCEPT ![t] = NoReq]
    /\ wrote' = [wrote EXCEPT ![t] = 0]
    /\ UNCHANGED <<transactions, cpxSecureHash, withdrawals, pending, existing,
                   delivered, faults, ledger, accepted, midFailed, mismatch>>

\* The store call a withdrawal awaits raises: the handler has no `except`, the
\* framework answers 500.
WithdrawalRaises(t) ==
    /\ pc[t] \in {"wd_insert", "wd_inc"}
    /\ faults < MaxFaults
    /\ faults' = faults + 1
    /\ pc' = [pc EXCEPT ![t] = "done"]
    /\ resp' = [resp EXCEPT ![t] = Resp("Internal Server Error", 500)]
    /\ req' = [req EXCEPT ![t] = NoReq]
    /\ wrote' = [wrote EXCEPT ![t] = 0]
    /\ UNCHANGED <<users, transactions, cpxSecureHash, withdrawals, pending,
                   existing,
                   delivered, ledger, accepted, midFailed, mismatch>>

request_withdrawal(t) ==
    \/ WithdrawalInsert(t)
    \/ WithdrawalInc(t)
    \/ WithdrawalRaises(t)

\* The postbacks that fund an account for a withdrawal: Admantium credits of
\* the minimum amount, signed by the provider.
FundingRequests ==
    {ValidRequest("admantium", u, x, MinWithdrawal, "credited") :
        u \in RegisteredUsers, x \in TxnIds}

NextWithdrawal ==
    \E t \in Tasks :
        \/ \E r \in FundingRequests : Receive(t, r)
        \/ \E u \in RegisteredUsers, a \in WithdrawalAmounts :
               WithdrawalReceive(t, u, a)
        \/ AdmantiumFindUser(t) \/ AdmantiumFindTxn(t)
        \/ AdmantiumCreditInc(t) \/ AdmantiumCreditInsert(t)
        \/ request_withdrawal(t)

SpecWithdrawal == Init /\ [][NextWithdrawal]_vars

\* C21: in every reachable state the balance of every account is zero or
\* more, whatever the interleaving of credits and withdrawal requests, two
\* withdrawal requests of one user handled concurrently included.
C21_BalanceNeverNegative ==
    \A u \in DOMAIN users : users[u].balance >= 0

\* The number of user u's rows that are credits with status `completed`.
CompletedCredits(txs, u) ==
    Cardinality({i \in DOMAIN txs :
                    /\ txs[i].user_id = u
                    /\ txs[i].reward_type = "credit"
                    /\ txs[i].status = "completed"})

\* C22: in every quiescent state, each account's surveys_completed is the
\* number of that user's credit rows with status `completed`, and it is
\* never negative.
C22_SurveysCompletedCountsCredits ==
    \A u \in DOMAIN users :
        /\ users[u].surveys_completed >= 0
        /\ Quiescent =>
               users[u].surveys_completed = CompletedCredits(transactions, u)

\* C23: inside the handling of a validly signed credit, the Transaction row
\* of the event is written before the account's counters are mutated: at the
\* step whose users.update_one takes effect, a row with the event's external
\* id is already in the store.
C23_RowBeforeCounters ==
    [][\A t \in Tasks :
          (UpdateApplies(t) /\ req[t].signed /\ IsCredit(req[t])) =>
              \E i \in DOMAIN transactions :
                  transactions[i].transaction_id = req[t].tid]_vars

\* The collection holds a credit row of e's provider and external id,
\* whatever its status.
HasCreditRow(txs, e) ==
    \E i \in DOMAIN txs :
        /\ txs[i].provider = Provider(e)
        /\ txs[i].transaction_id = e.tid
        /\ txs[i].reward_type = "credit"

\* C24: among validly signed deliveries of one provider handled one at a
\* time, a credit delivery whose external id already has a credit row of its provider,
\* whatever the row's status, changes no account counter and inserts no row.
C24_RecordedCreditNeverRecredited ==
    [][\A t \in Tasks :
          (/\ Busy(t) /\ req[t].signed /\ IsCredit(req[t])
           /\ OnlyProvider(Provider(req[t]))
           /\ HasCreditRow(transactions, req[t])) =>
              (users' = users /\ Len(transactions') = Len(transactions))]_vars

-----------------------------------------------------------------------------
(* Two registered users *)

InitTwoUsers ==
    /\ users = [u \in UserIds |-> NewUser]
    /\ transactions = <<>>
    /\ withdrawals = <<>>
    /\ pending = NoReq
    /\ cpxSecureHash \in CpxSecureHashValues
    /\ pc = [t \in Tasks |-> "idle"]
    /\ req = [t \in Tasks |-> NoReq]
    /\ existing = [t \in Tasks |-> <<>>]
    /\ resp = [t \in Tasks |-> NoResp]
    /\ wrote = [t \in Tasks |-> 0]
    /\ mismatch = [t \in Tasks |-> ""]
    /\ delivered = 0
    /\ faults = 0
    /\ ledger = EmptyBag
    /\ accepted = {}
    /\ midFailed = {}

\* Credits and reversals of CPX and Admantium for either user, signed by the
\* provider.
TwoUserRequests ==
    {ValidRequest("cpx", u, x, 4, st) :
        u \in UserIds, x \in TxnIds, st \in {"1", "2"}}
    \cup
    {ValidRequest("admantium", u, x, 1, st) :
        u \in UserIds, x \in TxnIds, st \in {"credited", "rejected"}}

NextTwoUsers ==
    \E t \in Tasks :
        \/ Quiescent /\ \E r \in TwoUserRequests : Receive(t, r)
        \/ cpx_research_callback(t)
        \/ admantium_callback(t)

SpecTwoUsers == InitTwoUsers /\ [][NextTwoUsers]_vars

\* The users recorded on the credit rows of e's provider and external id.
CreditedUsers(txs, e) ==
    {txs[i].user_id : i \in {j \in DOMAIN txs :
                                /\ txs[j].provider = Provider(e)
                                /\ txs[j].transaction_id = e.tid
                                /\ txs[j].reward_type = "credit"}}

\* C25: among validly signed deliveries of one provider handled one at a time,
\* the users.update_one of a reversal whose external id has a credit row
\* changes no account but that of the user recorded on the row, whatever user
\* id the reversal carries.
C25_ReversalDebitsCreditedUser ==
    [][\A t \in Tasks :
          (/\ UpdateApplies(t) /\ req[t].signed /\ IsReversal(req[t])
           /\ OnlyProvider(Provider(req[t]))
           /\ CreditedUsers(transactions, req[t]) # {}) =>
              \A u \in DOMAIN users :
                  u \notin CreditedUsers(transactions, req[t]) =>
                      users'[u] = users[u]]_vars

-----------------------------------------------------------------------------
(* One credit event, redelivered by its provider until it is accepted *)

InitRetry ==
    /\ users = [u \in RegisteredUsers |-> NewUser]
    /\ transactions = <<>>
    /\ withdrawals = <<>>
    /\ pending \in CreditRequests
    /\ cpxSecureHash \in CpxSecureHashValues
    /\ pc = [t \in Tasks |-> "idle"]
    /\ req = [t \in Tasks |-> NoReq]
    /\ existing = [t \in Tasks |-> <<>>]
    /\ resp = [t \in Tasks |-> NoResp]
    /\ wrote = [t \in Tasks |-> 0]
    /\ mismatch = [t \in Tasks |-> ""]
    /\ delivered = 0
    /\ faults = 0
    /\ ledger = EmptyBag
    /\ accepted = {}
    /\ midFailed = {}

\* The provider delivers the event, and delivers it again after a response
\* that is not the accepted literal.
Redeliver(t) ==
    /\ Quiescent
    /\ resp[t] # AcceptedResp(pending.ep)
    /\ Receive(t, pending)

\* The provider delivers the event once more although it was accepted.
Duplicate(t) ==
    /\ Quiescent
    /\ resp[t] = AcceptedResp(pending.ep)
    /\ Receive(t, pending)

\* The store calls of the credit paths, none of them raising.
HandleCredit(t) ==
    \/ inbrain_success_callback(t)
    \/ CpxFindTxn(t) \/ CpxFindUser(t) \/ CpxCreditInc(t) \/ CpxCreditInsert(t)
    \/ AdmantiumFindUser(t) \/ AdmantiumFindTxn(t)
    \/ AdmantiumCreditInc(t) \/ AdmantiumCreditInsert(t)

NextRetry ==
    \E t \in Tasks :
        \/ Redeliver(t)
        \/ Duplicate(t)
        \/ HandleCredit(t)
        \/ StoreRaises(t)

\* The event loop resumes a handler whose store call has returned, and the
\* provider does redeliver; a store call raises MaxFaults times at most.
SpecRetry ==
    /\ InitRetry
    /\ [][NextRetry]_vars
    /\ \A t \in Tasks : WF_vars(HandleCredit(t)) /\ WF_vars(Redeliver(t))

C27_PostbackFrame ==
    [][\A t \in Tasks :
          (Busy(t) /\ req[t].signed) =>
              /\ DOMAIN users' = DOMAIN users
              /\ \A u \in DOMAIN users :
                     u # req[t].user => users'[u] = users[u]
              /\ Len(transactions') >= Len(transactions)
              /\ \A i \in DOMAIN transactions :
                     transactions[i].transaction_id # req[t].tid =>
                         transactions'[i] = transactions[i]
              /\ ~UserExists(users, req[t].user) => store' = store]_vars

\* Only validly signed Inbrain failure callbacks have written to the store.
OnlyDisqualifications ==
    /\ \A e \in BagToSet(ledger) : e.signed /\ e.ep = "inbrain_failure"
    /\ \A i \in DOMAIN transactions :
           transactions[i].reward_type = "disqualification"

\* C28: when only validly signed Inbrain failure callbacks of external id t1,
\* handled one at a time, have written to the store and none is being
\* handled, either nothing is recorded and no counter has moved, or exactly
\* one row is recorded, with status `disqualified`, and its user's balance and
\* total_earned have grown by the row's points, surveys_completed by nothing.
C28_DisqualificationRecordedOnce ==
    (Quiescent /\ OnlyDisqualifications) =>
        \/ /\ transactions = <<>>
           /\ \A u \in DOMAIN users : users[u] = NewUser
        \/ /\ Len(transactions) = 1
           /\ transactions[1].status = "disqualified"
           /\ \A u \in DOMAIN users :
                  users[u] =
                      IF u = transactions[1].user_id
                      THEN [balance |-> transactions[1].points,
                            total_earned |-> transactions[1].points,
                            surveys_completed |-> 0]
                      ELSE NewUser

\* The sum of the amounts of user u's withdrawal records.
RECURSIVE SumWithdrawn(_, _)
SumWithdrawn(ws, u) ==
    IF ws = <<>> THEN 0
    ELSE (IF Head(ws).user_id = u THEN Head(ws).amount ELSE 0)
         + SumWithdrawn(Tail(ws), u)

====
